---- MODULE Spec2Model ----
(***************************************************************************)
(* FFmpegManager (src/src/core/ffmpeg_manager.py): the job runner of       *)
(* ffmpeg-gif-kun.  One FFmpegManager instance is shared by the worker     *)
(* threads the GUI tabs start (gif_convert_tab.py:1047,                    *)
(* video_encode_tab.py:592) and by the GUI thread, which calls             *)
(* cancel_current_process().  The shared fields are is_processing and      *)
(* current_process; no lock protects them, so every read and every write   *)
(* of a shared field is a step of its own.                                 *)
(***************************************************************************)
EXTENDS Integers, Sequences, FiniteSets, TLC

\* Bound of the exploration: run() calls made in one behaviour.
MaxCalls == 2

\* Worker threads that call run(), and the four run() entry points.
Workers == {"w1", "w2"}
Kinds == {"encode_video", "encode_video_advanced", "create_gif", "create_gif_advanced"}

\* None of Python, for the fields that hold a process handle.
None == 0

VARIABLES
    ffmpeg_path,      \* "none" (engine not located) or "ffmpeg"
    os_name,          \* os.name: "posix" or "nt"
    is_processing,    \* FFmpegManager.is_processing
    current_process,  \* FFmpegManager.current_process: None or a process id
    procs,            \* every engine child spawned so far, by process id
    ncalls,           \* run() calls made so far
    pc,               \* position of each worker inside run()
    staged,           \* the worker's call is create_gif_advanced (two processes)
    accepted,         \* the call passed both rejection checks
    stage,            \* 0, or the stage (1, 2) of a create_gif_advanced call
    popened,          \* local: value of subprocess.Popen(...) before it is stored
    waitOn,           \* process object on which wait() blocks
    ret,              \* "none" while running, then the value run() returns
    status,           \* status_callback messages of the call, as tags
    palette,          \* the call's temporary palette file exists
    spawned,          \* ids of the processes the call spawned
    cpc,              \* position of the GUI thread inside cancel_current_process()
    ctarget           \* children running since cancel was called, not signalled

\* The progress arithmetic of one monitored job (SpecProgress).  Times are in
\* centiseconds, the resolution of the engine's time tokens; an Optional
\* value is <<>> for None and <<v>> for the value v.
VARIABLES
    pkind,            \* the run() entry point of the monitored job
    psettings,        \* start_time, end_time, duration of its settings
    pstage,           \* 0 before the monitor starts, then 1, or 2 for stage 2
    total_duration,   \* the total_duration argument of _monitor_progress
    current_time,     \* current_time of the last line with a time token
    progress,         \* progress computed from that line
    reported,         \* the value progress_callback received for it
    probe,            \* the last call of _get_video_duration and its outcome
    line,             \* the last line the monitor read
    error_reported,   \* status_callback received that line as an error line
    logged            \* the last line log_callback received

progressVars == <<pkind, psettings, pstage, total_duration, current_time,
                  progress, reported, probe, line, error_reported,
                  logged>>

\* The monitor threads of _monitor_progress and the diagnostic stream of
\* each child (SpecMonitor), by process id.
VARIABLES
    mpc,              \* position of the monitor thread of the process
    merged,           \* the child was spawned with stderr=subprocess.STDOUT
    written,          \* diagnostic lines the child has written
    taken,            \* lines readline() has returned to the monitor
    forwarded,        \* lines the monitor has passed to the callbacks
    monitor_error,    \* the monitor reported an exception on status_callback
    blocked           \* the child is inside a write() to a full pipe

monitorVars == <<mpc, merged, written, taken, forwarded, monitor_error, blocked>>

\* The argument vector a run() entry point builds from its settings
\* (SpecBuilder).
VARIABLES
    builder,          \* "none", or the constructor or builder that ran last
    bsettings,        \* the EncodeSettings the entry point was called with
    cmd,              \* the argument vector handed to subprocess.Popen
    gsettings,        \* the GifSettings the entry point was called with
    video_duration,   \* local video_duration of the stage builder that ran last
    supported_hwaccels \* FFmpegManager.supported_hwaccels

gifVars == <<gsettings, video_duration, supported_hwaccels>>

builderVars == <<builder, bsettings, cmd, gifVars>>

\* The cancel requests of a single worker's jobs (SpecCancel).
VARIABLE
    cancelled         \* numbers of the run() calls during which
                      \* cancel_current_process() was called with is_busy() true

vars == <<ffmpeg_path, os_name, is_processing, current_process, procs, ncalls,
          pc, staged, accepted, stage, popened, waitOn, ret, status,
          palette, spawned, cpc, ctarget, progressVars, monitorVars,
          builderVars, cancelled>>

hostVars == <<ffmpeg_path, os_name>>

\* What no step of run() or of cancel_current_process() writes.
envVars == <<hostVars, progressVars, monitorVars, builderVars, cancelled>>
shared == <<is_processing, current_process>>
workerVars == <<pc, staged, accepted, stage, popened, waitOn, ret, status,
                palette, spawned>>
cancelVars == <<cpc, ctarget>>
runnerVars == <<hostVars, shared, procs, ncalls, workerVars, cancelVars,
               cancelled>>

----------------------------------------------------------------------------
\* Helpers

ProcIds == 1..Len(procs)

\* A child that was spawned and has not exited yet.
Alive(p) == procs[p].st \in {"alive", "signalled"}

Exited(p) == procs[p].st = "exited"

\* status_callback(msg).  Every caller of the repository passes the three
\* callbacks (gif_convert_tab.py:1143-1155, video_encode_tab.py:673-678), so
\* the "if status_callback:" guards are taken.
Report(t, msg) == status[t] \cup {msg}

\* The worker is between the acceptance of its job (is_processing = True,
\* line 450) and the end of its finally block (line 539).
InJob(t) == pc[t] \in {"spawn", "assign", "wait", "waiting",
                       "unlink", "fin_flag", "fin_handle"}

\* run() has returned to its caller.
Returned(t) == pc[t] = "idle" /\ ret[t] # "none"

\* Optional values.
Nothing == <<>>
Some(v) == <<v>>

\* Truth value of an Optional number in "if x:" (None and 0 are false).
TruthyNum(o) == o # Nothing /\ o[1] # 0

\* No call of _get_video_duration has been made.
NoProbe == [case |-> "none"]

----------------------------------------------------------------------------
\* get_video_info() and _get_video_duration(): the probe of a source file.
\* A case is what the probing child does; raw is the duration of the format
\* section in centiseconds.  The duration returned is in tenths of a second,
\* the precision the "{:.1f}" formatting of get_video_info leaves.

\* What can go wrong between the call of get_video_info and its result.
ProbeFailures ==
    {"missing_file", "timeout", "permission", "nonzero", "malformed",
     "no_video", "bad_duration"}

RawDurations == {0, 3, 300, 1234}

ProbeCases == [kind : ProbeFailures, raw : {0}] \cup [kind : {"ok"}, raw : RawDurations]

\* The try block of get_video_info: the exception it raises ("" for none)
\* and the value it returns, None or the duration entry of the info dict.
ProbeBody(case) ==
    CASE case.kind = "timeout" -> [exc |-> "TimeoutExpired", info |-> Nothing]
      [] case.kind = "permission" -> [exc |-> "PermissionError", info |-> Nothing]
      [] case.kind \in {"missing_file", "nonzero"} -> [exc |-> "", info |-> Nothing]
      [] case.kind = "malformed" -> [exc |-> "JSONDecodeError", info |-> Nothing]
      [] case.kind = "no_video" -> [exc |-> "", info |-> Nothing]
      [] case.kind = "bad_duration" -> [exc |-> "ValueError", info |-> Nothing]
      [] OTHER -> [exc |-> "", info |-> Some((case.raw + 5) \div 10)]

\* ProbeHandled without the last clause, "except Exception".
\* The classes derived from Exception among the exceptions of ProbeBody.
ExceptionClasses ==
    {"TimeoutExpired", "PermissionError", "JSONDecodeError", "ValueError"}

\* ProbeHandled without the last clause, "except Exception".
ProbeHandled_NoCatchAll(exc) == exc \in {"TimeoutExpired", "PermissionError"}

\* The except clauses of get_video_info: subprocess.TimeoutExpired,
\* PermissionError, Exception.
ProbeHandled(exc) ==
    \/ exc = "TimeoutExpired"
    \/ exc = "PermissionError"
    \/ exc \in ExceptionClasses

\* get_video_info(): whether it raised, the duration of the dict it returned
\* (None when it returned None) and the subprocess.run calls it made.
GetVideoInfo(fp, case) ==
    IF fp = "none" THEN [raised |-> FALSE, value |-> Nothing, spawns |-> 0]
    ELSE LET b == ProbeBody(case)
         IN  IF b.exc = "" THEN [raised |-> FALSE, value |-> b.info, spawns |-> 2]
             ELSE [raised |-> ~ProbeHandled(b.exc), value |-> Nothing, spawns |-> 2]

\* _get_video_duration(): float() of the duration entry, None without a dict.
GetVideoDuration(fp, case) == GetVideoInfo(fp, case)

----------------------------------------------------------------------------
\* No job is being monitored.
ProgressAtRest ==
    /\ pkind = "encode_video"
    /\ psettings = [start_time |-> Nothing, end_time |-> Nothing, duration |-> Nothing]
    /\ pstage = 0
    /\ total_duration = Nothing
    /\ current_time = Nothing
    /\ progress = Nothing
    /\ reported = Nothing
    /\ probe = NoProbe
    /\ line = Nothing
    /\ error_reported = FALSE
    /\ logged = Nothing

\* Process ids a behaviour can use: at most two children per run() call.
MonIds == 1..(2 * MaxCalls)

\* No monitor thread exists and no child has written anything.
MonitorAtRest ==
    /\ mpc = [p \in MonIds |-> "none"]
    /\ merged = [p \in MonIds |-> FALSE]
    /\ written = [p \in MonIds |-> 0]
    /\ taken = [p \in MonIds |-> 0]
    /\ forwarded = [p \in MonIds |-> 0]
    /\ monitor_error = [p \in MonIds |-> FALSE]
    /\ blocked = [p \in MonIds |-> FALSE]

\* An EncodeSettings with the defaults of its optional fields.
DefaultSettings ==
    [input_file |-> "in.avi", output_file |-> "out.mp4",
     video_codec |-> "libx264", audio_codec |-> "aac",
     width |-> Nothing, height |-> Nothing, fps |-> Nothing, crf |-> Nothing,
     preset |-> Nothing, bitrate |-> Nothing, start_time |-> Nothing,
     end_time |-> Nothing, hwaccel |-> Nothing, audio_bitrate |-> Nothing]

\* A GifSettings with the defaults of its optional fields.
DefaultGifSettings ==
    [input_file |-> "in.avi", output_file |-> "out.gif",
     width |-> Nothing, height |-> Nothing, fps |-> Nothing,
     start_time |-> Nothing, duration |-> Nothing, quality |-> "medium",
     enable_hardware_accel |-> TRUE, hardware_accel_type |-> "auto",
     scaling_algorithm |-> "lanczos", dither_mode |-> "floyd_steinberg"]

\* No argument vector has been built.
BuilderAtRest ==
    /\ builder = "none"
    /\ bsettings = DefaultSettings
    /\ cmd = <<>>
    /\ gsettings = DefaultGifSettings
    /\ video_duration = Nothing
    /\ supported_hwaccels = {}

RunnerInit ==
    /\ ffmpeg_path \in {"none", "ffmpeg"}
    /\ os_name \in {"posix", "nt"}
    /\ is_processing = FALSE
    /\ current_process = None
    /\ procs = <<>>
    /\ ncalls = 0
    /\ cancelled = {}
    /\ pc = [t \in Workers |-> "idle"]
    /\ staged = [t \in Workers |-> FALSE]
    /\ accepted = [t \in Workers |-> FALSE]
    /\ stage = [t \in Workers |-> 0]
    /\ popened = [t \in Workers |-> None]
    /\ waitOn = [t \in Workers |-> None]
    /\ ret = [t \in Workers |-> "none"]
    /\ status = [t \in Workers |-> {}]
    /\ palette = [t \in Workers |-> FALSE]
    /\ spawned = [t \in Workers |-> {}]
    /\ cpc = "idle"
    /\ ctarget = {}

Init == RunnerInit /\ ProgressAtRest /\ MonitorAtRest /\ BuilderAtRest

----------------------------------------------------------------------------
\* run(): entry and the two rejection checks (identical in the four entry
\* points: lines 439-447, 560-568, 698-706, 1182-1190).

\* A worker calls one of the four entry points, which first tests
\* is_ffmpeg_available(): if not, status_callback(...); return False.
Call(t, k) ==
    /\ pc[t] = "idle"
    /\ ncalls < MaxCalls
    /\ ncalls' = ncalls + 1
    /\ staged' = [staged EXCEPT ![t] = (k = "create_gif_advanced")]
    /\ accepted' = [accepted EXCEPT ![t] = FALSE]
    /\ stage' = [stage EXCEPT ![t] = 0]
    /\ spawned' = [spawned EXCEPT ![t] = {}]
    /\ palette' = [palette EXCEPT ![t] = FALSE]
    /\ IF ffmpeg_path = "none"
       THEN /\ status' = [status EXCEPT ![t] = {"unavailable"}]
            /\ ret' = [ret EXCEPT ![t] = "false"]
            /\ UNCHANGED pc
       ELSE /\ status' = [status EXCEPT ![t] = {}]
            /\ ret' = [ret EXCEPT ![t] = "none"]
            /\ pc' = [pc EXCEPT ![t] = "busychk"]
    /\ UNCHANGED <<envVars, shared, procs, popened, waitOn,
                   cancelVars>>

\* CheckBusy with the rejection inside the try block, so that the finally
\* block of the rejected call resets the busy flag.
CheckBusy_InsideTry(t) ==
    /\ pc[t] = "busychk"
    /\ IF is_processing
       THEN /\ status' = [status EXCEPT ![t] = status[t] \cup {"busy"}]
            /\ ret' = [ret EXCEPT ![t] = "false"]
            /\ pc' = [pc EXCEPT ![t] = "idle"]
            /\ is_processing' = FALSE
       ELSE /\ pc' = [pc EXCEPT ![t] = "setbusy"]
            /\ UNCHANGED <<status, ret, is_processing>>
    /\ UNCHANGED <<envVars, current_process, procs, ncalls, staged, accepted,
                   stage, popened, waitOn, palette, spawned, cancelVars>>

\* if self.is_processing: status_callback(...); return False
CheckBusy(t) ==
    /\ pc[t] = "busychk"
    /\ IF is_processing
       THEN /\ status' = [status EXCEPT ![t] = Report(t, "busy")]
            /\ ret' = [ret EXCEPT ![t] = "false"]
            /\ pc' = [pc EXCEPT ![t] = "idle"]
       ELSE /\ pc' = [pc EXCEPT ![t] = "setbusy"]
            /\ UNCHANGED <<status, ret>>
    /\ UNCHANGED <<envVars, shared, procs, ncalls, staged, accepted,
                   stage, popened, waitOn, palette, spawned, cancelVars>>

----------------------------------------------------------------------------
\* run(): the accepted job.

\* except Exception as e: status_callback(...); return False (lines 532-535,
\* 670-673, 765-768, 1326-1331); the finally block follows.
HandleException(t) ==
    /\ status' = [status EXCEPT ![t] = Report(t, "exception")]
    /\ ret' = [ret EXCEPT ![t] = "false"]
    /\ pc' = [pc EXCEPT ![t] = "fin_flag"]

\* A stage of create_gif_advanced returned False (or raised inside
\* _create_palette / _create_gif_with_palette, whose own except clause turns
\* the exception into False, lines 872-875 and 983-986): lines 731-734 and
\* 752-755, then the inner finally.
StageFailed(t, n) ==
    /\ status' = [status EXCEPT ![t] =
                     Report(t, IF n = 1 THEN "palette_failed" ELSE "gif_failed")]
    /\ ret' = [ret EXCEPT ![t] = "false"]
    /\ pc' = [pc EXCEPT ![t] = "unlink"]

\* Raise with an except clause that returns at once, no finally block run.
Raise_NoCleanup(t) ==
    /\ status' = [status EXCEPT ![t] = status[t] \cup {"exception"}]
    /\ ret' = [ret EXCEPT ![t] = "false"]
    /\ pc' = [pc EXCEPT ![t] = "idle"]

\* An exception is raised inside the try block of run(), or inside that of
\* a stage function when the job is staged.
Raise(t) ==
    IF staged[t] THEN StageFailed(t, stage[t]) ELSE HandleException(t)

\* try: self.is_processing = True, and what follows up to the Popen call,
\* none of which touches the shared fields: the argument vector is built,
\* the start is reported and the source duration is probed (lines 452-500,
\* 573-638, 1195-1293); create_gif_advanced creates the temporary palette
\* file and enters stage 1 (lines 711-729, 786-848).  Any of it may raise.
SetBusy(t) ==
    /\ pc[t] = "setbusy"
    /\ is_processing' = TRUE
    /\ accepted' = [accepted EXCEPT ![t] = TRUE]
    /\ \/ /\ pc' = [pc EXCEPT ![t] = "spawn"]
          /\ status' = [status EXCEPT ![t] =
                           Report(t, IF staged[t] THEN "step1" ELSE "start")]
          /\ stage' = [stage EXCEPT ![t] = IF staged[t] THEN 1 ELSE 0]
          /\ palette' = [palette EXCEPT ![t] = staged[t]]
          /\ UNCHANGED ret
       \/ \* tempfile or the command builder raises before any stage
          /\ HandleException(t)
          /\ UNCHANGED <<stage, palette>>
       \/ \* the builder of stage 1 raises, inside _create_palette
          /\ staged[t]
          /\ stage' = [stage EXCEPT ![t] = 1]
          /\ palette' = [palette EXCEPT ![t] = TRUE]
          /\ StageFailed(t, 1)
    /\ UNCHANGED <<envVars, current_process, procs, ncalls, staged,
                   popened, waitOn, spawned, cancelVars>>

\* subprocess.Popen(cmd, ...): the child exists from here on, or Popen raises.
Spawn(t) ==
    /\ pc[t] = "spawn"
    /\ \/ /\ procs' = Append(procs, [st |-> "alive", rc |-> 0, sig |-> FALSE,
                                     owner |-> t, stage |-> stage[t]])
          /\ popened' = [popened EXCEPT ![t] = Len(procs) + 1]
          /\ spawned' = [spawned EXCEPT ![t] = @ \cup {Len(procs) + 1}]
          /\ pc' = [pc EXCEPT ![t] = "assign"]
          /\ UNCHANGED <<status, ret>>
       \/ /\ Raise(t)
          /\ UNCHANGED <<procs, popened, spawned>>
    /\ UNCHANGED <<envVars, shared, ncalls, staged, accepted,
                   stage, waitOn, palette, cancelVars>>

\* self.current_process = <the Popen object>
Assign(t) ==
    /\ pc[t] = "assign"
    /\ current_process' = popened[t]
    /\ popened' = [popened EXCEPT ![t] = None]
    /\ pc' = [pc EXCEPT ![t] = "wait"]
    /\ UNCHANGED <<envVars, is_processing, procs, ncalls, staged,
                   accepted, stage, waitOn, ret, status, palette, spawned,
                   cancelVars>>

\* self.current_process.wait(): the field is read again; None has no wait()
\* (AttributeError).  The monitor thread was started just before (lines
\* 512-518); it writes neither shared field.
Wait(t) ==
    /\ pc[t] = "wait"
    /\ IF current_process = None
       THEN /\ Raise(t)
            /\ UNCHANGED waitOn
       ELSE /\ waitOn' = [waitOn EXCEPT ![t] = current_process]
            /\ pc' = [pc EXCEPT ![t] = "waiting"]
            /\ UNCHANGED <<status, ret>>
    /\ UNCHANGED <<envVars, shared, procs, ncalls, staged, accepted,
                   stage, popened, palette, spawned, cancelVars>>

\* Lines 523-530, 661-668, 1317-1324 of the one-process entry points.
SimpleResult(t, rc) ==
    /\ status' = [status EXCEPT ![t] = Report(t, IF rc = 0 THEN "done" ELSE "error")]
    /\ ret' = [ret EXCEPT ![t] = IF rc = 0 THEN "true" ELSE "false"]
    /\ pc' = [pc EXCEPT ![t] = "fin_flag"]
    /\ UNCHANGED stage

\* Lines 731-755 of create_gif_advanced: "return return_code == 0" of the
\* stage decides whether the next stage runs.  Stage 2 is entered up to its
\* Popen call (lines 737-746, 889-959), where its builder may raise.
StagedResult(t, rc) ==
    IF rc # 0
    THEN StageFailed(t, stage[t]) /\ UNCHANGED stage
    ELSE IF stage[t] = 1
         THEN \/ /\ status' = [status EXCEPT ![t] = Report(t, "step2")]
                 /\ stage' = [stage EXCEPT ![t] = 2]
                 /\ pc' = [pc EXCEPT ![t] = "spawn"]
                 /\ UNCHANGED ret
              \/ \* the builder of stage 2 raises: "GIF generation failed"
                 /\ status' = [status EXCEPT ![t] = Report(t, "step2") \cup {"gif_failed"}]
                 /\ stage' = [stage EXCEPT ![t] = 2]
                 /\ ret' = [ret EXCEPT ![t] = "false"]
                 /\ pc' = [pc EXCEPT ![t] = "unlink"]
              \/ \* status_callback raises between the stages: the inner
                 \* finally runs with the exception pending (ret is "none")
                 /\ pc' = [pc EXCEPT ![t] = "unlink"]
                 /\ UNCHANGED <<status, ret, stage>>
         ELSE /\ status' = [status EXCEPT ![t] = Report(t, "gif_done")]
              /\ ret' = [ret EXCEPT ![t] = "true"]
              /\ pc' = [pc EXCEPT ![t] = "unlink"]
              /\ UNCHANGED stage

\* wait() returns the exit code of the process it was called on.
WaitReturn(t) ==
    /\ pc[t] = "waiting"
    /\ Exited(waitOn[t])
    /\ IF staged[t]
       THEN StagedResult(t, procs[waitOn[t]].rc)
       ELSE SimpleResult(t, procs[waitOn[t]].rc)
    /\ UNCHANGED <<envVars, shared, procs, ncalls, staged, accepted,
                   popened, waitOn, palette, spawned, cancelVars>>

\* Inner finally of create_gif_advanced, lines 757-763: os.unlink of the
\* palette file; a failure of unlink is printed and swallowed.  Windows
\* refuses to delete a file that a live process holds open.  An exception
\* that was pending then reaches the outer except clause.
Unlink(t) ==
    /\ pc[t] = "unlink"
    /\ palette' = [palette EXCEPT ![t] =
                      os_name = "nt" /\ \E p \in spawned[t] : Alive(p)]
    /\ IF ret[t] = "none"
       THEN HandleException(t)
       ELSE pc' = [pc EXCEPT ![t] = "fin_flag"] /\ UNCHANGED <<status, ret>>
    /\ UNCHANGED <<envVars, shared, procs, ncalls, staged, accepted,
                   stage, popened, waitOn, spawned, cancelVars>>

\* finally: self.is_processing = False
FinFlag(t) ==
    /\ pc[t] = "fin_flag"
    /\ is_processing' = FALSE
    /\ pc' = [pc EXCEPT ![t] = "fin_handle"]
    /\ UNCHANGED <<envVars, current_process, procs, ncalls, staged,
                   accepted, stage, popened, waitOn, ret, status, palette,
                   spawned, cancelVars>>

\* finally: self.current_process = None; then run() returns ret.
FinHandle(t) ==
    /\ pc[t] = "fin_handle"
    /\ current_process' = None
    /\ pc' = [pc EXCEPT ![t] = "idle"]
    /\ waitOn' = [waitOn EXCEPT ![t] = None]
    /\ UNCHANGED <<envVars, is_processing, procs, ncalls, staged,
                   accepted, stage, popened, ret, status, palette, spawned,
                   cancelVars>>

----------------------------------------------------------------------------
\* The engine child process.

\* The child exits: with any code when it ran to its end, with a nonzero code
\* when it was terminated.
ProcExit(p, rc) ==
    /\ p \in ProcIds
    /\ Alive(p)
    /\ procs[p].sig => rc # 0
    /\ procs' = [procs EXCEPT ![p].st = "exited", ![p].rc = rc]
    /\ ctarget' = ctarget \ {p}
    /\ UNCHANGED <<envVars, shared, ncalls, workerVars, cpc>>

\* terminate() / send_signal() / kill() on a Popen object: nothing happens
\* to a child that has already exited.
Signalled(p) ==
    IF Alive(p)
    THEN [procs EXCEPT ![p].st = "signalled", ![p].sig = TRUE]
    ELSE procs

----------------------------------------------------------------------------
\* cancel_current_process(), lines 1024-1039, called from the GUI thread.

\* The call; ctarget remembers, for the length of the call, which of the
\* children that were running at that moment still run unsignalled.
CancelCall ==
    /\ cpc = "idle"
    /\ cpc' = "c_handle"
    /\ ctarget' = {p \in ProcIds : Alive(p)}
    /\ UNCHANGED <<envVars, shared, procs, ncalls, workerVars>>

\* if self.current_process and ...
CancelReadHandle ==
    /\ cpc = "c_handle"
    /\ cpc' = IF current_process = None THEN "idle" ELSE "c_flag"
    /\ ctarget' = IF cpc' = "idle" THEN {} ELSE ctarget
    /\ UNCHANGED <<envVars, shared, procs, ncalls, workerVars>>

\* ... and self.is_processing:
CancelReadFlag ==
    /\ cpc = "c_flag"
    /\ cpc' = IF is_processing THEN "c_term" ELSE "idle"
    /\ ctarget' = IF cpc' = "idle" THEN {} ELSE ctarget
    /\ UNCHANGED <<envVars, shared, procs, ncalls, workerVars>>

\* CancelTerminate that drops the handle of the process it terminated.
CancelTerminate_ClearsHandle ==
    /\ cpc = "c_term"
    /\ IF current_process = None
       THEN /\ cpc' = "idle"
            /\ UNCHANGED procs
       ELSE /\ procs' = Signalled(current_process)
            /\ cpc' = IF os_name = "nt" THEN "c_nt" ELSE "idle"
    /\ ctarget' = IF cpc' = "idle" THEN {} ELSE ctarget \ {current_process}
    /\ current_process' = None
    /\ UNCHANGED <<envVars, is_processing, ncalls, workerVars>>

\* try: self.current_process.terminate().  The field is read again; on None
\* the AttributeError is caught by "except Exception" and printed.
CancelTerminate ==
    /\ cpc = "c_term"
    /\ IF current_process = None
       THEN /\ cpc' = "idle"
            /\ UNCHANGED procs
       ELSE /\ procs' = Signalled(current_process)
            /\ cpc' = IF os_name = "nt" THEN "c_nt" ELSE "idle"
    /\ ctarget' = IF cpc' = "idle" THEN {} ELSE ctarget \ {current_process}
    /\ UNCHANGED <<envVars, shared, ncalls, workerVars>>

\* CancelNt without the outer "except Exception": the AttributeError raised
\* on a cleared handle leaves cancel_current_process().
CancelNt_Uncaught ==
    /\ cpc = "c_nt"
    /\ procs' = IF current_process = None THEN procs ELSE Signalled(current_process)
    /\ cpc' = IF current_process = None THEN "raised" ELSE "idle"
    /\ ctarget' = {}
    /\ UNCHANGED <<envVars, shared, ncalls, workerVars>>

\* if os.name == 'nt': self.current_process.send_signal(CTRL_BREAK_EVENT),
\* and kill() when that raises.  The field is read once more; on None both
\* calls raise AttributeError, which "except Exception" catches.
CancelNt ==
    /\ cpc = "c_nt"
    /\ procs' = IF current_process = None THEN procs ELSE Signalled(current_process)
    /\ cpc' = "idle"
    /\ ctarget' = {}
    /\ UNCHANGED <<envVars, shared, ncalls, workerVars>>

----------------------------------------------------------------------------
Next ==
    \/ \E t \in Workers, k \in Kinds : Call(t, k)
    \/ \E t \in Workers : CheckBusy(t)
    \/ \E t \in Workers : SetBusy(t)
    \/ \E t \in Workers : Spawn(t)
    \/ \E t \in Workers : Assign(t)
    \/ \E t \in Workers : Wait(t)
    \/ \E t \in Workers : WaitReturn(t)
    \/ \E t \in Workers : Unlink(t)
    \/ \E t \in Workers : FinFlag(t)
    \/ \E t \in Workers : FinHandle(t)
    \/ \E p \in ProcIds, rc \in {0, 1} : ProcExit(p, rc)
    \/ CancelCall
    \/ CancelReadHandle
    \/ CancelReadFlag
    \/ CancelTerminate
    \/ CancelNt

Spec == Init /\ [][Next]_vars

----------------------------------------------------------------------------
\* The progress arithmetic of _monitor_progress and of the callers that give
\* it total_duration and progress_callback.

\* Fractions n/d with d > 0, compared by cross-multiplication.
Frac(n, d) == [n |-> n, d |-> d]
Zero == Frac(0, 1)
One == Frac(1, 1)
Half == Frac(1, 2)
Leq(a, b) == a.n * b.d <= b.n * a.d
Lt(a, b) == a.n * b.d < b.n * a.d
Eq(a, b) == a.n * b.d = b.n * a.d

\* x / y for y # 0.
Div(x, y) == IF y > 0 THEN Frac(x, y) ELSE Frac(-x, -y)

\* Time tokens "time=HH:MM:SS.cc" of the engine's diagnostic lines, as the
\* groups <<hours, minutes, seconds, centiseconds>> of time_pattern.
Tokens == {<<h, m, sec, cs>> : h \in {0, 1}, m \in {0, 59}, sec \in {0, 2}, cs \in {0, 50}}

\* current_time = hours*3600 + minutes*60 + seconds + centiseconds/100.
TimeOf(tok) == 100 * (tok[1] * 3600 + tok[2] * 60 + tok[3]) + tok[4]

\* Progress without the upper clamp.
Progress_Unclamped(ct, total) == Div(ct, total)

\* progress = min(current_time / total_duration, 1.0)
Progress(ct, total) ==
    IF Leq(Div(ct, total), One) THEN Div(ct, total) ELSE One

\* Stage1Progress without the scaling to the first half.
Stage1Progress_Unscaled(p) == p

\* lambda p: progress_callback(p * 0.5), the callback given to stage 1.
Stage1Progress(p) == Frac(p.n, 2 * p.d)

\* Stage2Progress without the offset of the second half.
Stage2Progress_NoOffset(p) == Frac(p.n, 2 * p.d)

\* lambda p: progress_callback(0.5 + p * 0.5), the callback given to stage 2.
Stage2Progress(p) == Frac(p.d + p.n, 2 * p.d)

\* The value progress_callback of the caller receives for the monitor's p.
Delivered(k, st, p) ==
    IF k # "create_gif_advanced" THEN p
    ELSE IF st = 1 THEN Stage1Progress(p) ELSE Stage2Progress(p)

\* The duration the entry point hands to _monitor_progress, d being the
\* result of _get_video_duration (lines 500, 636, 848, 959, 1287-1293).
JobDuration(k, set, d) ==
    IF k = "encode_video" THEN d
    ELSE IF k = "encode_video_advanced"
    THEN IF set.start_time # Nothing /\ set.end_time # Nothing
         THEN Some(set.end_time[1] - set.start_time[1])
         ELSE IF set.start_time # Nothing /\ TruthyNum(d)
              THEN Some(d[1] - set.start_time[1])
              ELSE d
    ELSE IF TruthyNum(set.duration) THEN set.duration ELSE d

\* The times of the settings and of the probe, in centiseconds.
Times == {Nothing, Some(0), Some(200), Some(6000)}

InitProgress ==
    /\ RunnerInit /\ os_name = "posix"
    /\ MonitorAtRest
    /\ BuilderAtRest
    /\ pkind \in Kinds
    /\ psettings \in [start_time : Times, end_time : Times, duration : Times]
    /\ pstage = 0
    /\ total_duration = Nothing
    /\ current_time = Nothing
    /\ progress = Nothing
    /\ reported = Nothing
    /\ probe = NoProbe
    /\ line = Nothing
    /\ error_reported = FALSE
    /\ logged = Nothing

\* The call _get_video_duration(file) in the given case, and its outcome.
ProbeCall(case) ==
    LET r == GetVideoDuration(ffmpeg_path, case)
    IN  [case |-> case, raised |-> r.raised, value |-> r.value, spawns |-> r.spawns]

\* The GUI probes the file the user selected (get_video_info); this does not
\* need the engine to be available.
ProbeFile(case) ==
    /\ pstage = 0
    /\ probe = NoProbe
    /\ probe' = ProbeCall(case)
    /\ UNCHANGED <<runnerVars, monitorVars, builderVars, pkind, psettings, pstage,
                   total_duration, current_time, progress, reported, line,
                   error_reported, logged>>

\* The entry point computes the duration from its settings alone.
DurationFromSettings(k, set) ==
    IF k = "encode_video" THEN FALSE
    ELSE IF k = "encode_video_advanced"
    THEN set.start_time # Nothing /\ set.end_time # Nothing
    ELSE TruthyNum(set.duration)

\* The entry point (a stage of create_gif_advanced) computes the duration,
\* probing the source in the given case unless its settings give it, and
\* starts the monitor.  The probe's tenths become centiseconds.
StartMonitor(case) ==
    /\ ffmpeg_path # "none"
    /\ \/ pstage = 0
       \/ pstage = 1 /\ pkind = "create_gif_advanced"
    /\ pstage' = pstage + 1
    /\ probe' = IF DurationFromSettings(pkind, psettings) THEN NoProbe
                ELSE ProbeCall(case)
    /\ ~(probe' # NoProbe /\ probe'.raised)
    /\ LET d == IF probe' = NoProbe \/ probe'.value = Nothing THEN Nothing
                ELSE Some(10 * probe'.value[1])
       IN  total_duration' = JobDuration(pkind, psettings, d)
    /\ current_time' = Nothing
    /\ progress' = Nothing
    /\ reported' = Nothing
    /\ line' = Nothing
    /\ error_reported' = FALSE
    /\ logged' = Nothing
    /\ UNCHANGED <<runnerVars, monitorVars, builderVars, pkind, psettings>>

\* A line without a time token.
NoToken == <<>>

\* MonitorLine that computes the progress of every line with a time token,
\* taking an unknown total duration for one second.
MonitorLine_AnyDuration(tok, err) ==
    /\ pstage > 0
    /\ line' = Some([tok |-> tok, err |-> err])
    /\ logged' = line'
    /\ IF tok # NoToken
       THEN /\ current_time' = Some(TimeOf(tok))
            /\ progress' = Some(Progress(TimeOf(tok),
                                 IF TruthyNum(total_duration) THEN total_duration[1]
                                 ELSE 100))
            /\ reported' = Some(Delivered(pkind, pstage, progress'[1]))
            /\ error_reported' = FALSE
       ELSE /\ error_reported' = err
            /\ UNCHANGED <<current_time, progress, reported>>
    /\ UNCHANGED <<runnerVars, monitorVars, builderVars, pkind, psettings, pstage,
                   total_duration, probe>>

\* The monitor reads a line that holds the time token tok, or none, and the
\* word "error" or "failed" when err is true (lines 1094-1150).  The line
\* goes to log_callback before it is looked at.
MonitorLine(tok, err) ==
    /\ pstage > 0
    /\ line' = Some([tok |-> tok, err |-> err])
    /\ logged' = line'
    /\ IF tok # NoToken /\ TruthyNum(total_duration)
       THEN /\ current_time' = Some(TimeOf(tok))
            /\ progress' = Some(Progress(TimeOf(tok), total_duration[1]))
            /\ reported' = Some(Delivered(pkind, pstage, progress'[1]))
            /\ error_reported' = FALSE
       ELSE /\ error_reported' = err
            /\ UNCHANGED <<current_time, progress, reported>>
    /\ UNCHANGED <<runnerVars, monitorVars, builderVars, pkind, psettings, pstage,
                   total_duration, probe>>

NextProgress ==
    \/ \E case \in ProbeCases : ProbeFile(case)
    \/ \E case \in ProbeCases : StartMonitor(case)
    \/ \E tok \in Tokens \cup {NoToken}, err \in BOOLEAN : MonitorLine(tok, err)

SpecProgress == InitProgress /\ [][NextProgress]_vars

----------------------------------------------------------------------------
\* The monitor thread of _monitor_progress (lines 1083-1160) next to the
\* run() call that started it, for the calls of one worker thread.

\* Diagnostic lines a child writes at most.
MaxLines == 2

\* Lines the pipe of a child holds before a further write() blocks.
PipeCapacity == 1

\* run() calls whose monitors are followed.
MaxMonitoredCalls == 1

\* The one worker thread of SpecMonitor.
MonitoredWorker == "w1"

InitMonitor ==
    /\ RunnerInit /\ ffmpeg_path = "ffmpeg" /\ os_name = "posix"
    /\ ProgressAtRest
    /\ MonitorAtRest
    /\ BuilderAtRest

\* The worker calls run().
MonitoredCall(t, k) ==
    /\ ncalls < MaxMonitoredCalls
    /\ Call(t, k)

\* The child writes a diagnostic line: to the pipe of its stderr, or with
\* stderr=subprocess.STDOUT to the pipe of its stdout.  The pipe is bounded:
\* when it is full the write() blocks until the reader has taken a line.
ChildWrite(p) ==
    /\ p \in ProcIds
    /\ Alive(p)
    /\ ~blocked[p]
    /\ written[p] < MaxLines
    /\ IF written[p] - taken[p] < PipeCapacity
       THEN /\ written' = [written EXCEPT ![p] = @ + 1]
            /\ UNCHANGED blocked
       ELSE /\ blocked' = [blocked EXCEPT ![p] = TRUE]
            /\ UNCHANGED written
    /\ UNCHANGED <<runnerVars, progressVars, builderVars, mpc, merged, taken, forwarded,
                   monitor_error>>

\* The child exits; it cannot while it is inside a write() that blocks.
MonitoredExit(p, rc) ==
    /\ p \in ProcIds
    /\ ~blocked[p]
    /\ ProcExit(p, rc)

\* self._monitor_progress(self.current_process, ...): the daemon thread is
\* created and started (lines 1158-1160).  Of the one-process entry points
\* only encode_video_advanced merges stderr into stdout (line 1299), which
\* leaves process.stderr None.
MonitorStart(t, m) ==
    /\ pc[t] = "wait"
    /\ current_process # None
    /\ mpc[current_process] = "none"
    /\ m => ~staged[t]
    /\ mpc' = [mpc EXCEPT ![current_process] = "poll"]
    /\ merged' = [merged EXCEPT ![current_process] = m]
    /\ UNCHANGED <<runnerVars, progressVars, builderVars, written, taken, forwarded,
                   monitor_error, blocked>>

\* The wait() of run() comes after the start of the monitor.
MonitoredWait(t) ==
    /\ current_process # None => mpc[current_process] # "none"
    /\ Wait(t)

\* while process.poll() is None:
MonitorPoll(p) ==
    /\ p \in ProcIds
    /\ mpc[p] = "poll"
    /\ mpc' = [mpc EXCEPT ![p] = IF Exited(p) THEN "done" ELSE "read"]
    /\ UNCHANGED <<runnerVars, progressVars, builderVars, merged, written, taken, forwarded,
                   monitor_error, blocked>>

\* line = process.stderr.readline().  With process.stderr None the call
\* raises AttributeError: status_callback(...) and break (lines 1152-1155).
\* Otherwise readline() returns the next line, or '' at end of file, which
\* the pipe reaches when the child has exited, and blocks in between.  Taking
\* a line makes room in the pipe, and a write() that was blocked completes.
MonitorRead(p) ==
    /\ p \in ProcIds
    /\ mpc[p] = "read"
    /\ IF merged[p]
       THEN /\ monitor_error' = [monitor_error EXCEPT ![p] = TRUE]
            /\ mpc' = [mpc EXCEPT ![p] = "done"]
            /\ UNCHANGED <<taken, written, blocked>>
       ELSE /\ taken[p] < written[p] \/ Exited(p)
            /\ IF taken[p] < written[p]
               THEN /\ taken' = [taken EXCEPT ![p] = @ + 1]
                    /\ mpc' = [mpc EXCEPT ![p] = "line"]
                    /\ written' = [written EXCEPT ![p] = IF blocked[p] THEN @ + 1 ELSE @]
                    /\ blocked' = [blocked EXCEPT ![p] = FALSE]
               ELSE /\ mpc' = [mpc EXCEPT ![p] = "poll"]
                    /\ UNCHANGED <<taken, written, blocked>>
            /\ UNCHANGED monitor_error
    /\ UNCHANGED <<runnerVars, progressVars, builderVars, merged, forwarded>>

\* if line: log_callback(line.strip()), then the progress and status
\* callbacks of the line (lines 1093-1150).
MonitorForward(p) ==
    /\ p \in ProcIds
    /\ mpc[p] = "line"
    /\ forwarded' = [forwarded EXCEPT ![p] = @ + 1]
    /\ mpc' = [mpc EXCEPT ![p] = "poll"]
    /\ UNCHANGED <<runnerVars, progressVars, builderVars, merged, written, taken,
                   monitor_error, blocked>>

NextMonitor ==
    \/ \E k \in Kinds : MonitoredCall(MonitoredWorker, k)
    \/ CheckBusy(MonitoredWorker)
    \/ SetBusy(MonitoredWorker)
    \/ Spawn(MonitoredWorker)
    \/ Assign(MonitoredWorker)
    \/ \E m \in BOOLEAN : MonitorStart(MonitoredWorker, m)
    \/ MonitoredWait(MonitoredWorker)
    \/ WaitReturn(MonitoredWorker)
    \/ Unlink(MonitoredWorker)
    \/ FinFlag(MonitoredWorker)
    \/ FinHandle(MonitoredWorker)
    \/ \E p \in ProcIds, rc \in {0, 1} : MonitoredExit(p, rc)
    \/ \E p \in ProcIds : ChildWrite(p)
    \/ \E p \in ProcIds : MonitorPoll(p)
    \/ \E p \in ProcIds : MonitorRead(p)
    \/ \E p \in ProcIds : MonitorForward(p)

SpecMonitor == InitMonitor /\ [][NextMonitor]_vars

\* The scheduling of SpecMonitor: the worker thread and the monitor threads
\* keep running, and a child that can exit does so in the end.  Nothing
\* obliges a child to write.
MonitorFairness ==
    /\ WF_vars(\/ \E k \in Kinds : MonitoredCall(MonitoredWorker, k)
               \/ CheckBusy(MonitoredWorker)
               \/ SetBusy(MonitoredWorker)
               \/ Spawn(MonitoredWorker)
               \/ Assign(MonitoredWorker)
               \/ \E m \in BOOLEAN : MonitorStart(MonitoredWorker, m)
               \/ MonitoredWait(MonitoredWorker)
               \/ WaitReturn(MonitoredWorker)
               \/ Unlink(MonitoredWorker)
               \/ FinFlag(MonitoredWorker)
               \/ FinHandle(MonitoredWorker))
    /\ \A p \in MonIds :
          /\ WF_vars(\E rc \in {0, 1} : MonitoredExit(p, rc))
          /\ WF_vars(MonitorPoll(p) \/ MonitorRead(p) \/ MonitorForward(p))

SpecMonitorLive == InitMonitor /\ [][NextMonitor]_vars /\ MonitorFairness

-----------------------------------------------------------------------------
\* One worker thread and the GUI thread's cancel button.  The tab offers the
\* button while is_busy() is true; the call is recorded against the job that
\* is in flight.

InitCancel ==
    /\ RunnerInit /\ ffmpeg_path = "ffmpeg"
    /\ ProgressAtRest
    /\ MonitorAtRest
    /\ BuilderAtRest

\* _cancel_conversion(): self.ffmpeg_manager.cancel_current_process().
CancelConversion ==
    /\ cpc = "idle"
    /\ cpc' = "c_handle"
    /\ ctarget' = {p \in ProcIds : Alive(p)}
    /\ cancelled' = IF is_processing THEN cancelled \cup {ncalls} ELSE cancelled
    /\ UNCHANGED <<hostVars, progressVars, monitorVars, builderVars, shared,
                   procs, ncalls, workerVars>>

NextCancel ==
    \/ \E k \in Kinds : MonitoredCall(MonitoredWorker, k)
    \/ CheckBusy(MonitoredWorker)
    \/ SetBusy(MonitoredWorker)
    \/ Spawn(MonitoredWorker)
    \/ Assign(MonitoredWorker)
    \/ Wait(MonitoredWorker)
    \/ WaitReturn(MonitoredWorker)
    \/ Unlink(MonitoredWorker)
    \/ FinFlag(MonitoredWorker)
    \/ FinHandle(MonitoredWorker)
    \/ \E p \in ProcIds, rc \in {0, 1} : ProcExit(p, rc)
    \/ CancelConversion
    \/ CancelReadHandle
    \/ CancelReadFlag
    \/ CancelTerminate
    \/ CancelNt

SpecCancel == InitCancel /\ [][NextCancel]_vars

----------------------------------------------------------------------------
\* The argument vectors of the two transcode entry points.  A float is held
\* in tenths and rendered as str() renders it ("1.5"); an int is rendered by
\* ToString.

\* Truth value of an Optional string in "if x:" (None and "" are false).
TruthyStr(o) == o # Nothing /\ o[1] # ""

\* str() of a float held in tenths.
StrFloat(x) ==
    IF x < 0 THEN "-" \o ToString((0 - x) \div 10) \o "." \o ToString((0 - x) % 10)
    ELSE ToString(x \div 10) \o "." \o ToString(x % 10)

\* The codecs for which encode_video_advanced emits the preset.
supported_preset_codecs ==
    {"libx264", "libx265", "h264_nvenc", "h264_qsv", "h264_amf",
     "hevc_nvenc", "hevc_qsv", "hevc_amf"}

\* The argument vector of encode_video.
EncodeVideoCmd(fp, st) ==
    LET size == IF TruthyNum(st.width) /\ TruthyNum(st.height)
                THEN <<"-s", ToString(st.width[1]) \o "x" \o ToString(st.height[1])>>
                ELSE <<>>
        rate == IF TruthyNum(st.fps) THEN <<"-r", StrFloat(st.fps[1])>> ELSE <<>>
        quality == IF st.crf # Nothing THEN <<"-crf", ToString(st.crf[1])>>
                   ELSE IF TruthyStr(st.bitrate) THEN <<"-b:v", st.bitrate[1]>>
                   ELSE <<>>
        speed == IF TruthyStr(st.preset) /\ st.video_codec \in {"libx264", "libx265"}
                 THEN <<"-preset", st.preset[1]>>
                 ELSE <<>>
        video == IF st.video_codec # "copy"
                 THEN <<"-c:v", st.video_codec>> \o size \o rate \o quality \o speed
                 ELSE <<"-c:v", "copy">>
    IN  <<fp, "-i", st.input_file>> \o video \o <<"-c:a", st.audio_codec>>
            \o <<"-y", st.output_file>> \o <<"-y", st.output_file>>

\* AdvancedPreset that emits the preset for every codec.
AdvancedPreset_AnyCodec(st) ==
    IF TruthyStr(st.preset) THEN <<"-preset", st.preset[1]>> ELSE <<>>

\* The preset arguments of encode_video_advanced.
AdvancedPreset(st) ==
    IF TruthyStr(st.preset) /\ st.video_codec \in supported_preset_codecs
    THEN <<"-preset", st.preset[1]>>
    ELSE <<>>

\* The default audio bitrate or quality of encode_video_advanced.
DefaultAudioQuality(codec) ==
    IF codec = "aac" THEN <<"-b:a", "128k">>
    ELSE IF codec \in {"mp3", "libmp3lame"} THEN <<"-b:a", "192k">>
    ELSE IF codec = "libvorbis" THEN <<"-q:a", "5">>
    ELSE IF codec = "libopus" THEN <<"-b:a", "96k">>
    ELSE <<>>

\* AdvancedAudio that emits the default next to an explicit bitrate.
AdvancedAudio_DefaultAlways(st) ==
    IF st.audio_codec = "copy" THEN <<"-c:a", "copy">>
    ELSE <<"-c:a", st.audio_codec>>
             \o (IF TruthyStr(st.audio_bitrate) THEN <<"-b:a", st.audio_bitrate[1]>>
                 ELSE <<>>)
             \o DefaultAudioQuality(st.audio_codec)

\* The audio arguments of encode_video_advanced.
AdvancedAudio(st) ==
    IF st.audio_codec = "copy" THEN <<"-c:a", "copy">>
    ELSE <<"-c:a", st.audio_codec>>
             \o (IF TruthyStr(st.audio_bitrate) THEN <<"-b:a", st.audio_bitrate[1]>>
                 ELSE DefaultAudioQuality(st.audio_codec))

\* The argument vector of encode_video_advanced.
EncodeVideoAdvancedCmd(fp, st) ==
    LET accel == IF TruthyStr(st.hwaccel)
                 THEN IF st.hwaccel[1] = "auto" THEN <<"-hwaccel", "auto">>
                      ELSE <<"-hwaccel", st.hwaccel[1]>>
                 ELSE <<>>
        from == IF st.start_time # Nothing
                THEN <<"-ss", StrFloat(st.start_time[1])>> ELSE <<>>
        upto == IF st.end_time # Nothing
                THEN <<"-to", StrFloat(st.end_time[1])>> ELSE <<>>
        quality == IF st.crf # Nothing /\ st.crf[1] > 0
                   THEN <<"-crf", ToString(st.crf[1])>>
                   ELSE IF TruthyStr(st.bitrate) THEN <<"-b:v", st.bitrate[1]>>
                   ELSE <<>>
        speed == AdvancedPreset(st)
        rate == IF TruthyNum(st.fps) THEN <<"-r", StrFloat(st.fps[1])>> ELSE <<>>
        size == IF TruthyNum(st.width) /\ TruthyNum(st.height)
                THEN <<"-s", ToString(st.width[1]) \o "x" \o ToString(st.height[1])>>
                ELSE <<>>
        audio == AdvancedAudio(st)
        pixels == IF st.video_codec \in {"libx264", "h264_nvenc", "h264_qsv", "h264_amf"}
                  THEN <<"-pix_fmt", "yuv420p">>
                  ELSE IF st.video_codec \in {"libx265", "hevc_nvenc", "hevc_qsv", "hevc_amf"}
                  THEN <<"-pix_fmt", "yuv420p">>
                  ELSE <<>>
    IN  <<fp, "-y">> \o accel \o from \o upto \o <<"-i", st.input_file>>
            \o <<"-c:v", st.video_codec>> \o quality \o speed \o rate \o size
            \o audio \o pixels \o <<st.output_file>>

\* The keys of FFmpegManager.AUDIO_CODECS.
AUDIO_CODECS == {"aac", "mp3", "libmp3lame", "libvorbis", "libopus", "copy"}

\* The EncodeSettings the entry points are called with.
SettingsSpace ==
    [input_file : {"in.avi"}, output_file : {"out.mp4"},
     video_codec : {"libx264", "h264_nvenc", "libvpx-vp9", "copy"},
     audio_codec : AUDIO_CODECS,
     width : {Nothing, Some(640)}, height : {Nothing, Some(480)},
     fps : {Nothing, Some(300)},
     crf : {Nothing, Some(0), Some(30)},
     preset : {Nothing, Some("medium")},
     bitrate : {Nothing, Some("2M")},
     start_time : {Nothing, Some(15)}, end_time : {Nothing, Some(50)},
     hwaccel : {Nothing, Some("auto"), Some("none"), Some("cuda")},
     audio_bitrate : {Nothing, Some("192k")}]

InitBuilder ==
    /\ RunnerInit /\ ffmpeg_path = "ffmpeg" /\ os_name = "posix"
    /\ ProgressAtRest
    /\ MonitorAtRest
    /\ builder = "none"
    /\ bsettings \in SettingsSpace
    /\ cmd = <<>>
    /\ gsettings = DefaultGifSettings
    /\ video_duration = Nothing
    /\ supported_hwaccels = {}

\* EncodeSettings(...) with the field values of bsettings, and the
\* assignments to its fields: the dataclass has no __post_init__ and no
\* validation, so every combination of field values is constructed.
NewEncodeSettings ==
    /\ builder = "none"
    /\ builder' = "EncodeSettings"
    /\ UNCHANGED <<runnerVars, progressVars, monitorVars, gifVars, bsettings, cmd>>

\* encode_video builds its argument vector.
BuildEncodeVideo ==
    /\ builder = "EncodeSettings"
    /\ builder' = "encode_video"
    /\ cmd' = EncodeVideoCmd(ffmpeg_path, bsettings)
    /\ UNCHANGED <<runnerVars, progressVars, monitorVars, gifVars, bsettings>>

\* encode_video_advanced builds its argument vector.
BuildEncodeVideoAdvanced ==
    /\ builder = "EncodeSettings"
    /\ builder' = "encode_video_advanced"
    /\ cmd' = EncodeVideoAdvancedCmd(ffmpeg_path, bsettings)
    /\ UNCHANGED <<runnerVars, progressVars, monitorVars, gifVars, bsettings>>

----------------------------------------------------------------------------
\* The argument vectors of the GIF entry points.  The fps of a GifSettings
\* is an int or a float (the GUI stores a float), and str() tells them apart.

IntNum(n) == [float |-> FALSE, v |-> n]
FloatNum(x) == [float |-> TRUE, v |-> x]

\* The text an f-string gives for a number.
Str(x) == IF x.float THEN StrFloat(x.v) ELSE ToString(x.v)

\* Truth value of an Optional int-or-float in "if x:".
TruthyVal(o) == o # Nothing /\ o[1].v # 0

\* sep.join(parts)
RECURSIVE Join(_, _)
Join(parts, sep) ==
    IF parts = <<>> THEN ""
    ELSE IF Len(parts) = 1 THEN parts[1]
    ELSE parts[1] \o sep \o Join(Tail(parts), sep)

\* "{:02d}" of a non-negative int.
Pad2(n) == IF n < 10 THEN "0" \o ToString(n) ELSE ToString(n)

\* _format_time(): HH:MM:SS.mmm of a non-negative float held in tenths.
FormatTime(x) ==
    Pad2(x \div 36000) \o ":" \o Pad2((x % 36000) \div 600) \o ":"
        \o Pad2((x % 600) \div 10) \o "." \o ToString(x % 10) \o "00"

\* quality_settings.get(settings.quality, quality_settings['medium']) of
\* create_gif.
QualityConfig(q) ==
    CASE q = "low" -> [colors |-> "64", dither |-> "none"]
      [] q = "high" -> [colors |-> "256", dither |-> "floyd_steinberg"]
      [] OTHER -> [colors |-> "128", dither |-> "floyd_steinberg"]

\* PaletteColors whose default is the largest palette.
PaletteColors_NoFallback(q) ==
    CASE q = "low" -> 64
      [] q = "medium" -> 128
      [] OTHER -> 256

\* _get_palette_colors_for_quality()
PaletteColors(q) ==
    CASE q = "low" -> 64
      [] q = "high" -> 256
      [] OTHER -> 128

\* get_optimal_hardware_accel()
preferred_order == <<"cuda", "qsv", "videotoolbox", "vaapi", "d3d11va">>

\* OptimalHardwareAccel that returns the last supported backend of the order.
OptimalHardwareAccel_Last(supported) ==
    IF \E i \in 1..Len(preferred_order) : preferred_order[i] \in supported
    THEN Some(preferred_order[CHOOSE i \in 1..Len(preferred_order) :
                  /\ preferred_order[i] \in supported
                  /\ \A j \in (i + 1)..Len(preferred_order) :
                        preferred_order[j] \notin supported])
    ELSE Nothing

\* The first backend of preferred_order that is supported, None without one.
OptimalHardwareAccel(supported) ==
    IF \E i \in 1..Len(preferred_order) : preferred_order[i] \in supported
    THEN Some(preferred_order[CHOOSE i \in 1..Len(preferred_order) :
                  /\ preferred_order[i] \in supported
                  /\ \A j \in 1..(i - 1) : preferred_order[j] \notin supported])
    ELSE Nothing

\* _get_hardware_accel_for_settings()
HardwareAccel(g, supported) ==
    IF ~g.enable_hardware_accel THEN Nothing
    ELSE IF g.hardware_accel_type = "auto" THEN OptimalHardwareAccel(supported)
    ELSE IF g.hardware_accel_type = "none" THEN Nothing
    ELSE IF g.hardware_accel_type \in supported THEN Some(g.hardware_accel_type)
    ELSE Nothing

\* The scale filter of a GifSettings with the given flags, <<>> without one.
ScaleFilter(g, flags) ==
    IF TruthyNum(g.width) /\ TruthyNum(g.height)
    THEN <<"scale=" \o ToString(g.width[1]) \o ":" \o ToString(g.height[1])
              \o ":flags=" \o flags>>
    ELSE IF TruthyNum(g.width)
    THEN <<"scale=" \o ToString(g.width[1]) \o ":-1:flags=" \o flags>>
    ELSE IF TruthyNum(g.height)
    THEN <<"scale=-1:" \o ToString(g.height[1]) \o ":flags=" \o flags>>
    ELSE <<>>

\* The fps filter of a GifSettings, <<>> without one.
FpsFilter(g) == IF TruthyVal(g.fps) THEN <<"fps=" \o Str(g.fps[1])>> ELSE <<>>

\* CreateGifFilters with the fps filter first.
CreateGifFilters_FpsFirst(g) == FpsFilter(g) \o ScaleFilter(g, "lanczos")

\* The list filters of create_gif.
CreateGifFilters(g) == ScaleFilter(g, "lanczos") \o FpsFilter(g)

\* CreateGifCmd that builds the graph around the filter chain even when the
\* chain is empty.
CreateGifCmd_EmptyChain(fp, g) ==
    LET quality_config == QualityConfig(g.quality)
        from == IF g.start_time # Nothing
                THEN <<"-ss", StrFloat(g.start_time[1])>> ELSE <<>>
        length == IF g.duration # Nothing
                  THEN <<"-t", StrFloat(g.duration[1])>> ELSE <<>>
        filter_complex ==
            "[0:v]" \o Join(CreateGifFilters(g), ",") \o "[v];[v]palettegen=max_colors="
                \o quality_config.colors \o "[p];[v][p]paletteuse=dither="
                \o quality_config.dither
    IN  <<fp, "-i", g.input_file>> \o from \o length
            \o <<"-filter_complex", filter_complex, "-y", g.output_file>>

\* The argument vector of create_gif.
CreateGifCmd(fp, g) ==
    LET quality_config == QualityConfig(g.quality)
        from == IF g.start_time # Nothing
                THEN <<"-ss", StrFloat(g.start_time[1])>> ELSE <<>>
        length == IF g.duration # Nothing
                  THEN <<"-t", StrFloat(g.duration[1])>> ELSE <<>>
        filters == CreateGifFilters(g)
        palette_filter == "palettegen=max_colors=" \o quality_config.colors
        use_filter == "paletteuse=dither=" \o quality_config.dither
        filter_complex ==
            IF filters # <<>>
            THEN "[0:v]" \o Join(filters, ",") \o "[v];[v]" \o palette_filter
                     \o "[p];[v][p]" \o use_filter
            ELSE "[0:v]" \o palette_filter \o "[p];[0:v][p]" \o use_filter
    IN  <<fp, "-i", g.input_file>> \o from \o length
            \o <<"-filter_complex", filter_complex, "-y", g.output_file>>

\* StageTrim that takes an unknown source duration for zero.
StageTrim_UnknownAsZero(g, vd) ==
    (IF g.start_time # Nothing THEN <<"-ss", FormatTime(g.start_time[1])>> ELSE <<>>)
    \o (IF g.duration # Nothing THEN <<"-t", StrFloat(g.duration[1])>>
        ELSE IF g.start_time # Nothing
        THEN <<"-t", StrFloat((IF vd = Nothing THEN 0 ELSE vd[1]) - g.start_time[1])>>
        ELSE <<>>)

\* The trim arguments of a stage of create_gif_advanced; vd is the value
\* _get_video_duration returned.
StageTrim(g, vd) ==
    (IF g.start_time # Nothing THEN <<"-ss", FormatTime(g.start_time[1])>> ELSE <<>>)
    \o (IF g.duration # Nothing THEN <<"-t", StrFloat(g.duration[1])>>
        ELSE IF g.start_time # Nothing
        THEN (IF TruthyNum(vd) THEN <<"-t", StrFloat(vd[1] - g.start_time[1])>>
              ELSE <<>>)
        ELSE <<>>)

\* The argument vector of _create_palette.
CreatePaletteCmd(fp, g, supported, vd, palette_file) ==
    LET hwaccel == HardwareAccel(g, supported)
        accel == IF TruthyStr(hwaccel) THEN <<"-hwaccel", hwaccel[1]>> ELSE <<>>
        filters == FpsFilter(g) \o ScaleFilter(g, g.scaling_algorithm)
                       \o <<"format=rgb24">>
                       \o <<"palettegen=max_colors=" \o ToString(PaletteColors(g.quality))>>
    IN  <<fp>> \o accel \o StageTrim(g, vd) \o <<"-i", g.input_file>>
            \o <<"-vf", Join(filters, ",")>> \o <<"-y", palette_file>>

\* The list filters of _create_gif_with_palette.
Stage2Filters(g) ==
    LET first == IF TruthyVal(g.fps) THEN "[0:v]fps=" \o Str(g.fps[1]) ELSE "[0:v]"
        scale == ScaleFilter(g, g.scaling_algorithm)
        chain == IF scale = <<>> THEN first
                 ELSE IF first # "[0:v]" THEN first \o "," \o scale[1]
                 ELSE "[0:v]" \o scale[1]
    IN  <<chain \o "[v]", "[v][1:v]paletteuse=dither=" \o g.dither_mode>>

\* The argument vector of _create_gif_with_palette.
CreateGifWithPaletteCmd(fp, g, supported, vd, palette_file) ==
    LET hwaccel == HardwareAccel(g, supported)
        accel == IF TruthyStr(hwaccel) THEN <<"-hwaccel", hwaccel[1]>> ELSE <<>>
    IN  <<fp>> \o accel \o StageTrim(g, vd)
            \o <<"-i", g.input_file, "-i", palette_file>>
            \o <<"-filter_complex", Join(Stage2Filters(g), ";")>>
            \o <<"-y", g.output_file>>

\* The GifSettings the entry points are called with.
GifSettingsSpace ==
    [input_file : {"in.avi"}, output_file : {"out.gif"},
     width : {Nothing, Some(320)}, height : {Nothing, Some(240)},
     fps : {Nothing, Some(IntNum(10)), Some(FloatNum(100))},
     start_time : {Nothing, Some(50)}, duration : {Nothing, Some(30)},
     quality : {"low", "medium", "high", "best"},
     enable_hardware_accel : BOOLEAN,
     hardware_accel_type : {"auto", "none", "cuda"},
     scaling_algorithm : {"lanczos", "bicubic"},
     dither_mode : {"none", "floyd_steinberg"}]

\* The temporary file create_gif_advanced makes for the palette.
PaletteFile == "palette.png"

InitGifBuilder ==
    /\ RunnerInit /\ ffmpeg_path = "ffmpeg" /\ os_name = "posix"
    /\ ProgressAtRest
    /\ MonitorAtRest
    /\ builder = "none"
    /\ bsettings = DefaultSettings
    /\ cmd = <<>>
    /\ gsettings \in GifSettingsSpace
    /\ video_duration = Nothing
    /\ supported_hwaccels \in {{}, {"qsv", "cuda"}, {"vaapi", "dxva2"}}

\* GifSettings(...) with the field values of gsettings.
NewGifSettings ==
    /\ builder = "none"
    /\ builder' = "GifSettings"
    /\ UNCHANGED <<runnerVars, progressVars, monitorVars, gifVars, bsettings, cmd>>

\* create_gif builds its argument vector.
BuildCreateGif ==
    /\ builder = "GifSettings"
    /\ builder' = "create_gif"
    /\ cmd' = CreateGifCmd(ffmpeg_path, gsettings)
    /\ UNCHANGED <<runnerVars, progressVars, monitorVars, gifVars, bsettings>>

\* The source duration a stage builder gets: it probes the source only when
\* a start time is set and no duration.
StageProbe(g, case) ==
    IF g.duration = Nothing /\ g.start_time # Nothing
    THEN GetVideoDuration(ffmpeg_path, case).value
    ELSE Nothing

\* _create_palette builds its argument vector (stage 1).
BuildCreatePalette(case) ==
    /\ builder = "GifSettings"
    /\ builder' = "_create_palette"
    /\ video_duration' = StageProbe(gsettings, case)
    /\ cmd' = CreatePaletteCmd(ffmpeg_path, gsettings, supported_hwaccels,
                               video_duration', PaletteFile)
    /\ UNCHANGED <<runnerVars, progressVars, monitorVars, bsettings, gsettings,
                   supported_hwaccels>>

\* _create_gif_with_palette builds its argument vector (stage 2).
BuildCreateGifWithPalette(case) ==
    /\ builder = "_create_palette"
    /\ builder' = "_create_gif_with_palette"
    /\ video_duration' = StageProbe(gsettings, case)
    /\ cmd' = CreateGifWithPaletteCmd(ffmpeg_path, gsettings, supported_hwaccels,
                                      video_duration', PaletteFile)
    /\ UNCHANGED <<runnerVars, progressVars, monitorVars, bsettings, gsettings,
                   supported_hwaccels>>

NextBuilder ==
    \/ NewEncodeSettings
    \/ BuildEncodeVideo
    \/ BuildEncodeVideoAdvanced
    \/ NewGifSettings
    \/ BuildCreateGif
    \/ \E case \in ProbeCases : BuildCreatePalette(case)
    \/ \E case \in ProbeCases : BuildCreateGifWithPalette(case)

SpecBuilder == (InitBuilder \/ InitGifBuilder) /\ [][NextBuilder]_vars

----------------------------------------------------------------------------
\* Properties of the job runner

\* The children of worker t's current (or last) call, by stage.
Children(t, n) == {p \in spawned[t] : procs[p].stage = n}

\* No run() call is between its acceptance and the end of its cleanup.
Quiescent == \A t \in Workers : ~InJob(t)

\* C1: run() calls are mutually exclusive: while one accepted call has not
\* returned, no other call is accepted (it returns false and spawns nothing).
C1_MutualExclusion ==
    \A t, u \in Workers : t # u => ~(InJob(t) /\ InJob(u))

\* C2: at most one engine child is alive at any time, and within a two-stage
\* job the stage-1 child has exited before the stage-2 child exists.
C2_AtMostOneAlive ==
    /\ Cardinality({p \in ProcIds : Alive(p)}) <= 1
    /\ \A t \in Workers :
          Children(t, 2) # {} => \A q \in Children(t, 1) : Exited(q)

\* C3: whatever the outcome of an accepted job, at the moment its run()
\* returns the busy flag is false and the process handle is None.
C3_TerminalState ==
    [][\A t \in Workers :
          (pc[t] = "fin_handle" /\ pc'[t] = "idle") =>
              (~is_processing' /\ current_process' = None)]_vars

\* Once no run() call is in flight any more, the busy flag is false and the
\* process handle is None (the cleanup of every job has run).
TerminalStateWhenQuiescent ==
    Quiescent => (~is_processing /\ current_process = None)

\* The busy flag, the process handle and the children are left as they were.
SharedUnchanged ==
    /\ is_processing' = is_processing
    /\ current_process' = current_process
    /\ procs' = procs

\* C4: a rejected run() call (engine unavailable, or busy) reports the
\* condition on the status callback, returns false, spawns nothing and
\* leaves the busy flag, the process handle and the children unchanged.
C4_RejectedFrame ==
    [][/\ (ncalls' # ncalls /\ ffmpeg_path = "none") =>
             /\ SharedUnchanged
             /\ \E t \in Workers :
                   /\ pc'[t] = "idle" /\ ret'[t] = "false"
                   /\ "unavailable" \in status'[t] /\ spawned'[t] = {}
       /\ \A t \in Workers :
             (pc[t] = "busychk" /\ pc'[t] # "busychk" /\ is_processing) =>
                /\ SharedUnchanged
                /\ pc'[t] = "idle" /\ ret'[t] = "false"
                /\ "busy" \in status'[t] /\ spawned'[t] = {}
      ]_vars

\* C4 (witness): a call was rejected as busy and has returned while the
\* job in flight still has the busy flag and its handle, its child alive.
C4_Witness ==
    \E t, u \in Workers :
        /\ Returned(t) /\ "busy" \in status[t] /\ ret[t] = "false"
        /\ InJob(u) /\ is_processing
        /\ current_process \in spawned[u] /\ Alive(current_process)

\* C5: the busy flag is set from the acceptance of a job to that job's own
\* cleanup, and whenever a child of some call is alive.
C5_BusyUntilCleanup ==
    /\ \A t \in Workers :
          pc[t] \in {"spawn", "assign", "wait", "waiting", "unlink", "fin_flag"}
             => is_processing
    /\ \A p \in ProcIds : Alive(p) => is_processing

\* C6: an accepted job returns true exactly if its child (both children of a
\* two-stage job) exited with code 0, and a failure is reported otherwise.
C6_ResultByExitStatus ==
    \A t \in Workers :
        (Returned(t) /\ accepted[t]) =>
           /\ (ret[t] = "true") <=>
                 /\ Cardinality(spawned[t]) = (IF staged[t] THEN 2 ELSE 1)
                 /\ \A p \in spawned[t] : Exited(p) /\ procs[p].rc = 0
           /\ (ret[t] = "false") =>
                 status[t] \cap {"error", "exception", "palette_failed", "gif_failed"} # {}

\* C7: a stage-2 child exists only after the stage-1 child of the same job
\* exited with code 0, and a job with a failed stage returns false.
C7_StageSequencing ==
    \A t \in Workers :
        /\ Children(t, 2) # {} =>
              \A q \in Children(t, 1) : Exited(q) /\ procs[q].rc = 0
        /\ (Returned(t) /\ staged[t]
              /\ \E p \in spawned[t] : Exited(p) /\ procs[p].rc # 0)
              => ret[t] = "false"

\* C8: when a two-stage job has returned, its temporary palette file is gone.
C8_PaletteRemoved ==
    \A t \in Workers : Returned(t) => ~palette[t]

\* C9: a cancel call made while a child is running has signalled that child
\* (or the child has exited) by the time the call returns; a job whose child
\* was signalled returns false and spawns no further child.
C9_CancelFails ==
    /\ [][(cpc # "idle" /\ cpc' = "idle") =>
             \A p \in ctarget : Exited(p)' \/ procs'[p].sig]_vars
    /\ [](\A t \in Workers :
            /\ (Returned(t) /\ \E p \in spawned[t] : procs[p].sig) => ret[t] = "false"
            /\ (\E p \in Children(t, 1) : procs[p].sig) => Children(t, 2) = {})

\* C10: no step of cancel_current_process() writes the busy flag or the
\* process handle, and when no job is in flight it signals no process.
C10_CancelFrame ==
    [][cpc' # cpc =>
          /\ is_processing' = is_processing
          /\ current_process' = current_process
          /\ Quiescent => procs' = procs
      ]_vars

\* C10 (witness): cancel has signalled the child of the running job, and the
\* busy flag and the handle are as the job set them.
C10_Witness ==
    /\ cpc \in {"idle", "c_nt"}
    /\ is_processing
    /\ current_process # None
    /\ procs[current_process].st = "signalled"

C12_MonotoneClamped ==
    [][(/\ TruthyNum(total_duration) /\ total_duration[1] > 0
        /\ total_duration' = total_duration
        /\ current_time # Nothing /\ current_time' # Nothing
        /\ current_time[1] < current_time'[1])
          => (Leq(progress[1], progress'[1]) /\ Leq(progress'[1], One))]_vars

\* C12 (witness): a time token beyond the total duration was read, and the
\* progress is 1.
C12_Witness ==
    /\ TruthyNum(total_duration) /\ total_duration[1] > 0
    /\ current_time # Nothing /\ current_time[1] > total_duration[1]
    /\ Eq(progress[1], One)

\* C13: in a two-stage job the caller receives f/2 for the fraction f of
\* stage 1 and 0.5 + g/2 for the fraction g of stage 2.
C13_StageRemap ==
    (pkind = "create_gif_advanced" /\ reported # Nothing) =>
        /\ pstage = 1 => Eq(Frac(2 * reported[1].n, reported[1].d), progress[1])
        /\ pstage = 2 => Eq(Frac(2 * reported[1].n, reported[1].d),
                            Frac(progress[1].d + progress[1].n, progress[1].d))

\* C13 (witness): stage 2 read a line at a quarter of its duration and the
\* caller received 0.625.
C13_Witness ==
    /\ pkind = "create_gif_advanced" /\ pstage = 2
    /\ progress # Nothing /\ Eq(progress[1], Frac(1, 4))
    /\ Eq(reported[1], Frac(5, 8))

\* C14: in a two-stage job every value delivered during stage 1 lies in
\* [0, 0.5) and every value delivered during stage 2 in [0.5, 1].
C14_StageRanges ==
    (pkind = "create_gif_advanced" /\ reported # Nothing) =>
        /\ pstage = 1 => (Leq(Zero, reported[1]) /\ Lt(reported[1], Half))
        /\ pstage = 2 => (Leq(Half, reported[1]) /\ Leq(reported[1], One))

\* C14 (amended): every value delivered during stage 1 lies in the closed
\* range [0, 0.5] and every value delivered during stage 2 in [0.5, 1].
C14_StageRangesClosed ==
    (pkind = "create_gif_advanced" /\ reported # Nothing) =>
        /\ pstage = 1 => (Leq(Zero, reported[1]) /\ Leq(reported[1], Half))
        /\ pstage = 2 => (Leq(Half, reported[1]) /\ Leq(reported[1], One))

\* C14 (witness): stage 1 read a time token at or beyond its total duration
\* and the caller received exactly 0.5.
C14_Witness ==
    /\ pkind = "create_gif_advanced" /\ pstage = 1
    /\ current_time # Nothing /\ current_time[1] >= total_duration[1]
    /\ Eq(reported[1], Half)

\* The run() call that spawned process p has returned.
JobOver(p) ==
    LET t == procs[p].owner
    IN  p \notin spawned[t] \/ Returned(t)

\* A callback of the monitor of process p is delivered in this step.
Callback(p) ==
    \/ forwarded'[p] # forwarded[p]
    \/ monitor_error'[p] # monitor_error[p]

\* C15: in a two-stage job no callback of the monitor of stage 1 is
\* delivered after a callback of the monitor of stage 2.
C15_StageCallbackOrder ==
    [][\A p \in ProcIds :
          (Callback(p) /\ procs[p].stage = 1) =>
              \A q \in spawned[procs[p].owner] :
                  (p \in spawned[procs[p].owner] /\ procs[q].stage = 2)
                      => (forwarded[q] = 0 /\ ~monitor_error[q])]_vars

\* C16: no callback of the monitor of a job is delivered after the run()
\* call of that job has returned.
C16_NoCallbackAfterReturn ==
    [][\A p \in ProcIds : Callback(p) => ~JobOver(p)]_vars

\* C17: when the monitor of an exited child has ended, every line the child
\* wrote has been forwarded to log_callback.
C17_AllLinesForwarded ==
    \A p \in ProcIds :
        (Exited(p) /\ mpc[p] = "done") => forwarded[p] = written[p]

\* The status messages that report a failure of the job.
FailureReports == {"error", "exception", "palette_failed", "gif_failed"}

\* C18: when subprocess.Popen raises (in either stage of a two-stage job) the
\* call reports a failure on status_callback, goes on to its cleanup with the
\* result false and no child, the cleanup resets the busy flag, and the call
\* returns false.
C18_SpawnFailure ==
    [][\A t \in Workers :
          /\ (pc[t] = "spawn" /\ pc'[t] \notin {"spawn", "assign"}) =>
                /\ pc'[t] \in {"unlink", "fin_flag"}
                /\ ret'[t] = "false"
                /\ status'[t] \cap FailureReports # {}
                /\ spawned'[t] = spawned[t] /\ procs' = procs
          /\ (pc[t] = "unlink" /\ pc'[t] # "unlink") => pc'[t] = "fin_flag"
          /\ (pc[t] = "fin_flag" /\ pc'[t] # "fin_flag") =>
                (pc'[t] = "fin_handle" /\ ~is_processing')
          /\ (pc[t] = "fin_handle" /\ pc'[t] # "fin_handle") => pc'[t] = "idle"
          /\ (ret[t] = "false" /\ InJob(t)) => ret'[t] = "false"]_vars

\* C18 (witness): a one-process call whose Popen raised has returned false
\* after reporting the exception, and the busy flag is false.
C18_Witness ==
    \E t \in Workers :
        /\ Returned(t) /\ accepted[t] /\ ret[t] = "false"
        /\ "start" \in status[t] /\ "exception" \in status[t]
        /\ spawned[t] = {}
        /\ ~is_processing

----------------------------------------------------------------------------
\* Properties of the argument vectors

\* The positions of the arguments of c that belong to the set fs.
Pos(c, fs) == {i \in 1..Len(c) : c[i] \in fs}

\* c holds an argument of as and one of bs, and every argument of as comes
\* before every argument of bs.
Places(c, as, bs) ==
    /\ Pos(c, as) # {} /\ Pos(c, bs) # {}
    /\ \A i \in Pos(c, as), j \in Pos(c, bs) : i < j

\* Every argument of as that c holds comes before every one of bs it holds.
Before(c, as, bs) == \A i \in Pos(c, as), j \in Pos(c, bs) : i < j

\* A transcode argument vector has been built.
Built == builder \in {"encode_video", "encode_video_advanced"}

\* C19: for settings with both a resolution and a CRF set, the argument
\* vector places the video-codec flag before the CRF flag, the CRF flag before
\* the preset flag when there is a preset flag, and the output path last.
C19_TranscodeOrdering ==
    (Built /\ bsettings.width # Nothing /\ bsettings.height # Nothing
           /\ bsettings.crf # Nothing) =>
        /\ Places(cmd, {"-c:v"}, {"-crf"})
        /\ Before(cmd, {"-crf"}, {"-preset"})
        /\ cmd[Len(cmd)] = bsettings.output_file

\* The flags that follow the input file reference.
OutputFlags ==
    {"-c:v", "-crf", "-b:v", "-preset", "-r", "-s", "-c:a", "-b:a", "-q:a",
     "-pix_fmt"}

\* C20: in every transcode argument vector the overwrite flag comes first,
\* then the hardware-acceleration selector, then the trim flags (start, end),
\* then the input file reference, then the output-side flags, and the output
\* path is the final argument.
C20_GlobalOrdering ==
    Built =>
        /\ cmd[2] = "-y" /\ Pos(cmd, {"-y"}) = {2}
        /\ Before(cmd, {"-hwaccel"}, {"-ss", "-to", "-i"} \cup OutputFlags)
        /\ Before(cmd, {"-ss"}, {"-to", "-i"} \cup OutputFlags)
        /\ Before(cmd, {"-to"}, {"-i"} \cup OutputFlags)
        /\ Places(cmd, {"-i"}, OutputFlags)
        /\ Pos(cmd, {bsettings.output_file}) = {Len(cmd)}

\* C21: no transcode job spec has a CRF and a bitrate set at the same time
\* (such a construction is rejected).
C21_CrfBitrateExclusive ==
    builder # "none" => ~(bsettings.crf # Nothing /\ bsettings.bitrate # Nothing)

\* c holds the arguments of part next to each other, in that order.
Contains(c, part) ==
    \E i \in 0..(Len(c) - Len(part)) : SubSeq(c, i + 1, i + Len(part)) = part

\* C22: the vector of encode_video_advanced holds a -preset flag if and only
\* if a preset is set and the video codec supports presets; for libvpx-vp9
\* with libopus and crf=30 either builder's vector holds
\* -c:v libvpx-vp9 -crf 30 -c:a libopus, no -preset flag, and ends with the
\* output path.
C22_PresetOmission ==
    /\ builder = "encode_video_advanced" =>
          (Pos(cmd, {"-preset"}) # {} <=>
              (TruthyStr(bsettings.preset)
                  /\ bsettings.video_codec \in supported_preset_codecs))
    /\ (Built /\ bsettings.video_codec = "libvpx-vp9"
              /\ bsettings.audio_codec = "libopus" /\ bsettings.crf = Some(30)
              /\ ~TruthyNum(bsettings.width) /\ ~TruthyNum(bsettings.fps)) =>
          /\ Contains(cmd, <<"-c:v", "libvpx-vp9", "-crf", "30", "-c:a", "libopus">>)
          /\ Pos(cmd, {"-preset"}) = {}
          /\ cmd[Len(cmd)] = bsettings.output_file

\* C22 (witness): encode_video_advanced has built the vector of a libvpx-vp9
\* job with libopus, crf=30 and a preset set.
C22_Witness ==
    /\ builder = "encode_video_advanced"
    /\ bsettings.video_codec = "libvpx-vp9" /\ bsettings.audio_codec = "libopus"
    /\ bsettings.crf = Some(30) /\ bsettings.preset = Some("medium")
    /\ ~TruthyNum(bsettings.width) /\ ~TruthyNum(bsettings.fps)
    /\ Pos(cmd, {"-preset"}) = {}

\* The filter graph of an argument vector.
FilterGraph(c) == c[(CHOOSE i \in Pos(c, {"-filter_complex"}) : TRUE) + 1]

\* C23: when create_gif is asked for a scale or an fps filter its graph is
\* [0:v]<scale>,<fps>[v];[v]palettegen=max_colors=<N>[p];[v][p]paletteuse=dither=<D>
\* with the scale filter first, -1 for an omitted dimension, and N and D of
\* the quality tier; for width=320, height=240, fps=10 and quality low it is
\* the graph of the example.
C23_SinglePassGraph ==
    builder = "create_gif" =>
        LET g == gsettings
            w == IF TruthyNum(g.width) THEN ToString(g.width[1]) ELSE "-1"
            h == IF TruthyNum(g.height) THEN ToString(g.height[1]) ELSE "-1"
            scale == IF TruthyNum(g.width) \/ TruthyNum(g.height)
                     THEN "scale=" \o w \o ":" \o h \o ":flags=lanczos" ELSE ""
            fps == IF TruthyVal(g.fps) THEN "fps=" \o Str(g.fps[1]) ELSE ""
            chain == IF scale # "" /\ fps # "" THEN scale \o "," \o fps
                     ELSE scale \o fps
            N == IF g.quality = "low" THEN "64"
                 ELSE IF g.quality = "high" THEN "256" ELSE "128"
            D == IF g.quality = "low" THEN "none" ELSE "floyd_steinberg"
        IN  /\ chain # "" =>
                 FilterGraph(cmd) = "[0:v]" \o chain \o "[v];[v]palettegen=max_colors="
                                       \o N \o "[p];[v][p]paletteuse=dither=" \o D
            /\ (g.width = Some(320) /\ g.height = Some(240)
                    /\ g.fps = Some(IntNum(10)) /\ g.quality = "low") =>
                 FilterGraph(cmd) = "[0:v]scale=320:240:flags=lanczos,fps=10[v];[v]palettegen=max_colors=64[p];[v][p]paletteuse=dither=none"

\* C23 (witness): create_gif has built the vector of the example.
C23_Witness ==
    /\ builder = "create_gif"
    /\ gsettings.width = Some(320) /\ gsettings.height = Some(240)
    /\ gsettings.fps = Some(IntNum(10)) /\ gsettings.quality = "low"
    /\ Pos(cmd, {"-filter_complex"}) # {}

\* C24: with a start time set and no duration, each stage of the two-stage
\* builder emits -t (source duration - start time) when the probe gave a
\* source duration (0.0 is what the probe gives for a source without one),
\* and the start flag with no -t flag when the probe gave None.
C24_TrimFallback ==
    (builder \in {"_create_palette", "_create_gif_with_palette"}
        /\ gsettings.start_time # Nothing /\ gsettings.duration = Nothing) =>
        /\ Contains(cmd, <<"-ss", FormatTime(gsettings.start_time[1])>>)
        /\ TruthyNum(video_duration) =>
              /\ Contains(cmd, <<"-t", StrFloat(video_duration[1] - gsettings.start_time[1])>>)
              /\ Cardinality(Pos(cmd, {"-t"})) = 1
        /\ ~TruthyNum(video_duration) => Pos(cmd, {"-t"}) = {}
        /\ cmd[Len(cmd)] \in {PaletteFile, gsettings.output_file}

\* C24 (witness): stage 2 has built its vector for a job with a start time
\* and no duration whose probe returned None.
C24_Witness ==
    /\ builder = "_create_gif_with_palette"
    /\ gsettings.start_time # Nothing /\ gsettings.duration = Nothing
    /\ video_duration = Nothing
    /\ Pos(cmd, {"-ss"}) # {} /\ Pos(cmd, {"-t"}) = {}

\* The filter chains with at least one filter.
FilterChains ==
    LET F == {"fps=" \o Str(n) : n \in {IntNum(10), FloatNum(100)}}
        S == {"scale=" \o w \o ":" \o h \o ":flags=" \o a :
                 w \in {"320", "-1"}, h \in {"240", "-1"}, a \in {"lanczos", "bicubic"}}
    IN  F \cup S \cup {f \o "," \o x : f \in F, x \in S}
          \cup {x \o "," \o f : f \in F, x \in S}

\* C30: the stage-2 filter graph is [0:v]<chain>[v];[v][1:v]paletteuse=dither=<D>
\* with a chain of at least one filter, whatever of fps, width and height is
\* present.
C30_Stage2GraphWellFormed ==
    builder = "_create_gif_with_palette" =>
        \E chain \in FilterChains :
            FilterGraph(cmd) = "[0:v]" \o chain \o "[v];[v][1:v]paletteuse=dither="
                                  \o gsettings.dither_mode

----------------------------------------------------------------------------
\* Properties of the probe and of the line classification

\* C25: the probe never raises; it spawns nothing and returns None when the
\* engine is unavailable; it returns None for a missing file, a timeout, a
\* nonzero exit code, malformed output and output without a video stream;
\* and a job whose probe returned None has started its monitor with the
\* duration unknown.
C25_ProbeNeverRaises ==
    probe # NoProbe =>
        /\ ~probe.raised
        /\ ffmpeg_path = "none" => (probe.spawns = 0 /\ probe.value = Nothing)
        /\ probe.case.kind \in ProbeFailures => probe.value = Nothing
        /\ (pstage > 0 /\ probe.value = Nothing) => total_duration = Nothing

\* C25 (witness): a job started its monitor after the probe got malformed
\* output.
C25_Witness ==
    /\ pstage > 0 /\ probe # NoProbe
    /\ probe.case.kind = "malformed" /\ probe.value = Nothing
    /\ total_duration = Nothing

\* C26: every line that holds "error" or "failed" is reported as an error
\* line on status_callback, with or without a time token in it and with or
\* without a known total duration.
C26_ErrorLineReported ==
    (line # Nothing /\ line[1].err) => error_reported

----------------------------------------------------------------------------
\* C27: when the monitor of a job has ended early on an exception, which it
\* reported on status_callback, run() still returns in the end, with the
\* result the exit code of the child gives, also when the child goes on
\* writing diagnostics into the pipe nobody drains any more.
C27_MonitorFailureHarmless ==
    /\ \A p \in MonIds : monitor_error[p] ~> Returned(MonitoredWorker)
    /\ [](\A p \in MonIds :
             (monitor_error[p] /\ Returned(MonitoredWorker) /\ p \in ProcIds
                 /\ Exited(p)) =>
                 (ret[MonitoredWorker] = "true" <=> procs[p].rc = 0))

\* C29: cancel_current_process() never raises.  Every step it takes after
\* its test of the handle and the flag leads to its return or to its next
\* statement, also when the job's cleanup has cleared the handle in between
\* or the process has already exited, and in those two cases it signals
\* nothing.
C29_CancelNeverRaises ==
    [][(cpc \in {"c_term", "c_nt"} /\ cpc' # cpc) =>
          /\ cpc' \in {"idle", "c_nt"}
          /\ (current_process = None \/ Exited(current_process)) => procs' = procs
      ]_vars

\* The handle was cleared, or its process exited, after cancel's test passed.
C29_Witness ==
    /\ cpc = "c_nt"
    /\ current_process = None
    /\ \E p \in ProcIds : Exited(p)

\* C28: once cancel_current_process() has been called while is_busy() was
\* true, the job in flight spawns no further engine process and does not
\* come to return true.
C28_CancelStopsJob ==
    [][(ncalls \in cancelled /\ ncalls' = ncalls) =>
          /\ Len(procs') = Len(procs)
          /\ ret'[MonitoredWorker] = "true" => ret[MonitoredWorker] = "true"
      ]_vars

----------------------------------------------------------------------------
\* Properties of the two-stage GIF vectors

\* The arguments of c that precede its first input reference, after the
\* executable.
InputPrefix(c) ==
    LET first == CHOOSE i \in Pos(c, {"-i"}) : \A j \in Pos(c, {"-i"}) : i <= j
    IN  SubSeq(c, 2, first - 1)

\* C31: the stage-2 vector of a two-stage GIF job has the input-side prefix
\* (hardware-acceleration flag, -ss, -t) of the job's stage-1 vector,
\* whatever each stage's probe of the source duration returned.
C31_SameInputPrefix ==
    [][(builder = "_create_palette" /\ builder' = "_create_gif_with_palette") =>
          InputPrefix(cmd') = InputPrefix(cmd)]_vars

----------------------------------------------------------------------------
\* Further properties of the transcode vectors

\* C32: when a CRF is set (0 included) a transcode vector holds -crf <value>
\* after the video-codec flag and no -b:v flag; no vector holds both a -crf
\* and a -b:v flag.
C32_CrfEmitted ==
    Built =>
        /\ bsettings.crf # Nothing =>
              /\ Contains(cmd, <<"-crf", ToString(bsettings.crf[1])>>)
              /\ Places(cmd, {"-c:v"}, {"-crf"})
              /\ Pos(cmd, {"-b:v"}) = {}
        /\ ~(Pos(cmd, {"-crf"}) # {} /\ Pos(cmd, {"-b:v"}) # {})

----------------------------------------------------------------------------
\* Properties of the hardware-acceleration flag

\* A GIF vector has been built.
BuiltGif == builder \in {"create_gif", "_create_palette", "_create_gif_with_palette"}

\* C33: for every job kind, the backend "none" and an explicit backend that
\* the capability probe did not report give a vector without a -hwaccel flag.
C33_NoFlagForNoneOrUnsupported ==
    /\ (Built /\ bsettings.hwaccel # Nothing
              /\ bsettings.hwaccel[1] \notin supported_hwaccels \cup {"auto"}) =>
          Pos(cmd, {"-hwaccel"}) = {}
    /\ (BuiltGif /\ gsettings.hardware_accel_type \notin supported_hwaccels \cup {"auto"}) =>
          Pos(cmd, {"-hwaccel"}) = {}

\* A stage vector of the two-stage GIF job has been built.
BuiltStage == builder \in {"_create_palette", "_create_gif_with_palette"}

----------------------------------------------------------------------------
\* Properties of the palette

\* The value of the flag f in the argument vector c.
FlagValue(c, f) == c[(CHOOSE i \in Pos(c, {f}) : TRUE) + 1]

\* C35: the palette size is 64 for the tier low, 128 for medium, 256 for
\* high and 128 for every other tier, in the palettegen filter of the
\* single-pass builder and in the one of stage 1 alike.
C35_PaletteSize ==
    LET q == gsettings.quality
        N == IF q = "low" THEN "64" ELSE IF q = "high" THEN "256" ELSE "128"
        gen == "palettegen=max_colors=" \o N
        uses == {"[p];" \o src \o "[p]paletteuse=dither=" \o d :
                     src \in {"[v]", "[0:v]"}, d \in {"none", "floyd_steinberg"}}
    IN  /\ builder = "create_gif" =>
              FilterGraph(cmd) \in
                  {"[0:v]" \o gen \o u : u \in uses}
                  \cup {"[0:v]" \o chain \o "[v];[v]" \o gen \o u :
                            chain \in FilterChains, u \in uses}
        /\ builder = "_create_palette" =>
              FlagValue(cmd, "-vf") \in
                  {"format=rgb24," \o gen}
                  \cup {chain \o ",format=rgb24," \o gen : chain \in FilterChains}

\* C35 (witness): stage 1 was built for the unknown tier "best" and asks for
\* a palette of 128 colours.
C35_Witness ==
    /\ builder = "_create_palette"
    /\ gsettings.quality = "best"
    /\ gsettings.fps = Nothing /\ gsettings.width = Nothing /\ gsettings.height = Nothing
    /\ FlagValue(cmd, "-vf") = "format=rgb24,palettegen=max_colors=128"

----------------------------------------------------------------------------
\* Properties of the audio arguments

\* The flags that set an audio bitrate or an audio quality.
AudioQualityFlags == {"-b:a", "-q:a"}

----------------------------------------------------------------------------
\* C37: when the probe of a job or stage returned None or zero (so that no
\* duration of the settings stood in for it), the monitor was started with
\* an unknown total duration, progress_callback has received nothing during
\* that job or stage, whatever time tokens its lines held, and every line
\* the monitor read has gone to log_callback.
C37_UnknownDurationNoProgress ==
    (pstage > 0 /\ probe # NoProbe /\ ~TruthyNum(probe.value)) =>
        /\ ~TruthyNum(total_duration)
        /\ progress = Nothing
        /\ reported = Nothing
        /\ logged = line

\* C37 (witness): the probe returned 0.0, and the monitor has read a line
\* with a time token and passed it to log_callback only.
C37_Witness ==
    /\ pstage > 0
    /\ probe # NoProbe /\ probe.value = Some(0)
    /\ line # Nothing /\ line[1].tok # NoToken
    /\ logged = line
    /\ reported = Nothing

----------------------------------------------------------------------------
\* C38: without a scale and an fps filter the graph of create_gif is
\* [0:v]palettegen=max_colors=<N>[p];[0:v][p]paletteuse=dither=<D>: both
\* palette filters read the input pad [0:v], they are joined by the pad [p],
\* and the graph has no empty chain and no pad [v].
C38_UnfilteredGraph ==
    (builder = "create_gif" /\ ~TruthyNum(gsettings.width)
        /\ ~TruthyNum(gsettings.height) /\ ~TruthyVal(gsettings.fps)) =>
        LET q == gsettings.quality
            N == IF q = "low" THEN "64" ELSE IF q = "high" THEN "256" ELSE "128"
            D == IF q = "low" THEN "none" ELSE "floyd_steinberg"
        IN  /\ Cardinality(Pos(cmd, {"-filter_complex"})) = 1
            /\ FilterGraph(cmd) = "[0:v]palettegen=max_colors=" \o N
                                     \o "[p];[0:v][p]paletteuse=dither=" \o D

\* C38 (witness): create_gif has built the vector of a job of the tier high
\* without width, height and fps.
C38_Witness ==
    /\ builder = "create_gif"
    /\ gsettings.width = Nothing /\ gsettings.height = Nothing
    /\ gsettings.fps = Nothing /\ gsettings.quality = "high"
    /\ FilterGraph(cmd) = "[0:v]palettegen=max_colors=256[p];[0:v][p]paletteuse=dither=floyd_steinberg"

----------------------------------------------------------------------------
\* The output path of the vector the builder that ran last has built.
OutputPath ==
    IF Built THEN bsettings.output_file
    ELSE IF builder = "_create_palette" THEN PaletteFile
    ELSE gsettings.output_file

\* C39: in every argument vector (of the two transcode builders, of
\* create_gif and of the two stages of create_gif_advanced) the output path
\* occurs once, as the last argument, and the overwrite flag -y occurs once.
C39_OutputOnce ==
    (Built \/ BuiltGif) =>
        /\ Pos(cmd, {OutputPath}) = {Len(cmd)}
        /\ Cardinality(Pos(cmd, {"-y"})) = 1

----------------------------------------------------------------------------
\* C40: the value of a -t flag that a stage of create_gif_advanced derives
\* from the probed source duration is strictly positive, whatever the start
\* time and the probed duration are.
C40_PositiveTrim ==
    (BuiltStage /\ gsettings.duration = Nothing /\ Pos(cmd, {"-t"}) # {}) =>
        \E x \in 1..1234 : FlagValue(cmd, "-t") = StrFloat(x)

====
